---- MODULE Spec2Model ----
(***************************************************************************)
(* gbcemu: the bit-addressable Register (register.cc) and the cartridge    *)
(* image parser GBCBinary (memory/gbc_binary.cc).                          *)
(*                                                                         *)
(* Two specifications share the variables:                                 *)
(*   RegisterSpec  - a Register after construction, driven by get_bit,     *)
(*                   set_bit and the inherited AddressableMemory write;    *)
(*   Spec          - a byte buffer handed to valid_nintendo_logo,          *)
(*                   valid_header_checksum, extract_header_data and        *)
(*                   parse_bytes.                                          *)
(***************************************************************************)
EXTENDS Integers, Sequences, FiniteSets, TLC

VARIABLES
    reg,          \* the Register object: [memory_, editable_]
    reg_call,     \* the last call made on the Register and its outcome
    reg_ops,      \* number of calls made on the Register so far
    byte_buffer,  \* the byte vector given to the GBCBinary functions (0-indexed)
    call          \* the GBCBinary call made on byte_buffer and its outcome

vars == <<reg, reg_call, reg_ops, byte_buffer, call>>

reg_vars == <<reg, reg_call, reg_ops>>
bin_vars == <<byte_buffer, call>>

(***************************************************************************)
(* Bounds of the model.                                                    *)
(***************************************************************************)
\* Longest sequence of calls made on one Register.
MaxOps == 3
\* Buffers are at most this many bytes longer than the header end address.
MaxExtra == 1

(***************************************************************************)
(* Fixed-width integer helpers.                                            *)
(***************************************************************************)
Byte == 0..255

\* Conversion of an int to uint8_t (value modulo 2^8).
ToUint8(x) == x % 256

RECURSIVE Pow2(_)
Pow2(n) == IF n = 0 THEN 1 ELSE 2 * Pow2(n - 1)

\* Bit k of the non-negative integer x.
BitOf(x, k) == (x \div Pow2(k)) % 2

\* Width of the int the operands are promoted to.  Only the low 8 bits of a
\* result survive the store into a uint8_t, so any width above 8 behaves alike.
IntBits == 16

RECURSIVE BitOrN(_, _, _)
BitOrN(a, b, n) ==
    IF n = 0 THEN 0
    ELSE (IF (a % 2 = 1) \/ (b % 2 = 1) THEN 1 ELSE 0)
         + 2 * BitOrN(a \div 2, b \div 2, n - 1)

RECURSIVE BitAndN(_, _, _)
BitAndN(a, b, n) ==
    IF n = 0 THEN 0
    ELSE (IF (a % 2 = 1) /\ (b % 2 = 1) THEN 1 ELSE 0)
         + 2 * BitAndN(a \div 2, b \div 2, n - 1)

\* a | b, a & b and ~a on ints held in two's complement.
BitOr(a, b) == BitOrN(a, b, IntBits)
BitAnd(a, b) == BitAndN(a, b, IntBits)
BitNot(a) == Pow2(IntBits) - 1 - a

(***************************************************************************)
(* Register (register.cc)                                                  *)
(***************************************************************************)
max_bit_index == 7

\* AddressableMemory(bytes, editable): owns the bytes, remembers the mode.
AddressableMemory(bytes, editable) ==
    [memory_ |-> bytes, editable_ |-> editable]

\* Register::Register()
Register == AddressableMemory([i \in 0..1 |-> 0], FALSE)

\* memory_.size()
Size(memory) == Cardinality(DOMAIN memory)

\* get_bit counting bit_index from the left (bit 0 = most significant).
get_bit_from_left(memory, byte_index, bit_index) ==
    IF byte_index < Size(memory) /\ bit_index <= max_bit_index
    THEN [threw |-> FALSE,
          value |-> BitAnd(memory[byte_index] \div Pow2(max_bit_index - bit_index), 1) # 0]
    ELSE [threw |-> TRUE, value |-> FALSE]

\* Register::get_bit
get_bit(memory, byte_index, bit_index) ==
    IF byte_index < Size(memory) /\ bit_index <= max_bit_index
    THEN [threw |-> FALSE,
          value |-> BitAnd(memory[byte_index] \div Pow2(bit_index), 1) # 0]
    ELSE [threw |-> TRUE, value |-> FALSE]

\* set_bit without the bit_index bound.
set_bit_unchecked_bit(memory, byte_index, bit_index, bit_value) ==
    IF byte_index < Size(memory)
    THEN [threw |-> FALSE,
          memory_ |->
            IF bit_value
            THEN [memory EXCEPT ![byte_index] =
                    ToUint8(BitOr(memory[byte_index], Pow2(bit_index % 16)))]
            ELSE [memory EXCEPT ![byte_index] =
                    ToUint8(BitAnd(memory[byte_index], BitNot(Pow2(bit_index % 16))))]]
    ELSE [threw |-> TRUE, memory_ |-> memory]

\* set_bit storing the mask instead of or-ing it into the byte.
set_bit_assign(memory, byte_index, bit_index, bit_value) ==
    IF byte_index < Size(memory) /\ bit_index <= max_bit_index
    THEN [threw |-> FALSE,
          memory_ |->
            IF bit_value
            THEN [memory EXCEPT ![byte_index] = ToUint8(Pow2(bit_index))]
            ELSE [memory EXCEPT ![byte_index] =
                    ToUint8(BitAnd(memory[byte_index], BitNot(Pow2(bit_index))))]]
    ELSE [threw |-> TRUE, memory_ |-> memory]

\* Register::set_bit
set_bit(memory, byte_index, bit_index, bit_value) ==
    IF byte_index < Size(memory) /\ bit_index <= max_bit_index
    THEN [threw |-> FALSE,
          memory_ |->
            IF bit_value
            THEN [memory EXCEPT ![byte_index] =
                    ToUint8(BitOr(memory[byte_index], Pow2(bit_index)))]
            ELSE [memory EXCEPT ![byte_index] =
                    ToUint8(BitAnd(memory[byte_index], BitNot(Pow2(bit_index))))]]
    ELSE [threw |-> TRUE, memory_ |-> memory]

\* AddressableMemory::write
write(mem, index, value) ==
    IF index >= Size(mem.memory_)
    THEN [outcome |-> "out_of_range", memory_ |-> mem.memory_]
    ELSE IF ~mem.editable_
    THEN [outcome |-> "refused", memory_ |-> mem.memory_]
    ELSE [outcome |-> "ok", memory_ |-> [mem.memory_ EXCEPT ![index] = value]]

\* uint8_t arguments tried on the Register.
ByteIndexes == {0, 1, 2, 255}
BitIndexes == 0..8
WriteValues == {0, 255}

NoRegCall ==
    [op |-> "none", byte_index |-> 0, bit_index |-> 0, bit_value |-> FALSE,
     outcome |-> "none", ret |-> FALSE, before |-> Register.memory_]

Call_get_bit(byte_index, bit_index) ==
    LET r == get_bit(reg.memory_, byte_index, bit_index) IN
    /\ reg_ops < MaxOps
    /\ reg_ops' = reg_ops + 1
    /\ reg' = reg
    /\ reg_call' = [op |-> "get_bit", byte_index |-> byte_index,
                    bit_index |-> bit_index, bit_value |-> FALSE,
                    outcome |-> IF r.threw THEN "out_of_range" ELSE "ok",
                    ret |-> r.value, before |-> reg.memory_]
    /\ UNCHANGED bin_vars

Call_set_bit(byte_index, bit_index, bit_value) ==
    LET r == set_bit(reg.memory_, byte_index, bit_index, bit_value) IN
    /\ reg_ops < MaxOps
    /\ reg_ops' = reg_ops + 1
    /\ reg' = [reg EXCEPT !.memory_ = r.memory_]
    /\ reg_call' = [op |-> "set_bit", byte_index |-> byte_index,
                    bit_index |-> bit_index, bit_value |-> bit_value,
                    outcome |-> IF r.threw THEN "out_of_range" ELSE "ok",
                    ret |-> FALSE, before |-> reg.memory_]
    /\ UNCHANGED bin_vars

Call_write(index, value) ==
    LET r == write(reg, index, value) IN
    /\ reg_ops < MaxOps
    /\ reg_ops' = reg_ops + 1
    /\ reg' = [reg EXCEPT !.memory_ = r.memory_]
    /\ reg_call' = [op |-> "write", byte_index |-> index,
                    bit_index |-> value, bit_value |-> FALSE,
                    outcome |-> r.outcome,
                    ret |-> FALSE, before |-> reg.memory_]
    /\ UNCHANGED bin_vars

(***************************************************************************)
(* Util (util.h): helpers used by GBCBinary.                               *)
(***************************************************************************)
\* Util::combined_char_based_value: two ASCII digits to their decimal value.
combined_char_based_value(high, low) ==
    IF high \in 48..57 /\ low \in 48..57
    THEN [threw |-> FALSE, value |-> ToUint8((high - 48) * 10 + (low - 48))]
    ELSE [threw |-> TRUE, value |-> 0]

\* std::memcpy of two consecutive bytes into a uint16_t: the value the host
\* sees depends on its byte order.
memcpy16(b0, b1, little_endian) ==
    IF little_endian THEN b0 + 256 * b1 ELSE 256 * b0 + b1

\* Util::nthos16_t: a 16-bit value in big-endian (on-disk) order to host order.
nthos16_t(value, little_endian) ==
    IF little_endian THEN (value % 256) * 256 + (value \div 256) ELSE value

(***************************************************************************)
(* GBCBinary (memory/gbc_binary.cc)                                        *)
(***************************************************************************)
nintendo_logo_bytes ==
    << 206, 237, 102, 102, 204, 13, 0, 11, 3,
       115, 0, 131, 0, 12, 0, 13, 0, 8,
       17, 31, 136, 137, 0, 14, 220, 204, 110,
       230, 221, 221, 217, 153, 187, 187, 103, 99,
       110, 14, 236, 204, 221, 220, 153, 159, 187,
       185, 51, 62 >>

logo_start_addr == 260          \* 0x104
logo_end_addr == 307            \* 0x133
header_end_addr == 335          \* 0x14F
header_check_start_addr == 308  \* 0x134
header_check_end_addr == 332    \* 0x14C
header_checksum_addr == 333     \* 0x14D
header_title_start_addr == 308  \* 0x134
header_title_end_addr == 322    \* 0x142

header_flag_addr ==
    [gameboy_type |-> 323, licencee_new_byte_1 |-> 324, licencee_new_byte_2 |-> 325,
     sgb_compatability |-> 326, cartridge_type |-> 327, rom_size |-> 328,
     ram_size |-> 329, japanese_code |-> 330, licencee_old |-> 331,
     mask_rom_version |-> 332, complement_check |-> 333, checksum |-> 334]

LogoMsg == "Missing logo byte ranges 0x104 to 0x133."
HeaderMsg == "Missing header data at byte ranges 0x134 to 0x14F."

SetMin(S) == CHOOSE x \in S : \A y \in S : x <= y

\* std::equal(first1, last1, first2) over the half-open range [first1, last1):
\* the verdict and the indices of the buffer it reads (it stops at the first
\* mismatch).
std_equal(buf, first1, last1, other) ==
    LET n == last1 - first1
        mismatch == {k \in 0..(n - 1) : buf[first1 + k] # other[k + 1]}
    IN  [value |-> mismatch = {},
         reads |-> IF mismatch = {} THEN first1..(last1 - 1)
                   ELSE first1..(first1 + SetMin(mismatch))]

\* GBCBinary::valid_nintendo_logo
valid_nintendo_logo(buf) ==
    IF Size(buf) >= logo_end_addr
    THEN LET eq == std_equal(buf, logo_start_addr, logo_end_addr, nintendo_logo_bytes)
         IN  [threw |-> FALSE, msg |-> "", value |-> eq.value, reads |-> eq.reads]
    ELSE [threw |-> TRUE, msg |-> LogoMsg, value |-> FALSE, reads |-> {}]

\* The for loop of valid_header_checksum, from cur_header_flag on.
RECURSIVE checksum_loop(_, _, _)
checksum_loop(buf, cur_header_flag, calculated_checksum) ==
    IF cur_header_flag <= header_check_end_addr
    THEN checksum_loop(buf, cur_header_flag + 1,
                       ToUint8(calculated_checksum - buf[cur_header_flag] - 1))
    ELSE calculated_checksum

\* The checksum loop with the "- 1" of each step left out.
RECURSIVE checksum_loop_no_decrement(_, _, _)
checksum_loop_no_decrement(buf, cur_header_flag, calculated_checksum) ==
    IF cur_header_flag <= header_check_end_addr
    THEN checksum_loop_no_decrement(buf, cur_header_flag + 1,
                       ToUint8(calculated_checksum - buf[cur_header_flag]))
    ELSE calculated_checksum

valid_header_checksum_no_decrement(buf) ==
    IF Size(buf) >= header_end_addr
    THEN [threw |-> FALSE, msg |-> "",
          value |-> checksum_loop_no_decrement(buf, header_check_start_addr, 0)
                      = buf[header_checksum_addr],
          reads |-> (header_check_start_addr..header_check_end_addr)
                      \cup {header_checksum_addr}]
    ELSE [threw |-> TRUE, msg |-> HeaderMsg, value |-> FALSE, reads |-> {}]

\* GBCBinary::valid_header_checksum
valid_header_checksum(buf) ==
    IF Size(buf) >= header_end_addr
    THEN [threw |-> FALSE, msg |-> "",
          value |-> checksum_loop(buf, header_check_start_addr, 0)
                      = buf[header_checksum_addr],
          reads |-> (header_check_start_addr..header_check_end_addr)
                      \cup {header_checksum_addr}]
    ELSE [threw |-> TRUE, msg |-> HeaderMsg, value |-> FALSE, reads |-> {}]

\* The try/catch with the two licencee bytes passed the wrong way round.
extract_licencee_new_swapped(byte_1, byte_2) ==
    LET r == combined_char_based_value(byte_2, byte_1)
    IN  IF r.threw THEN 0 ELSE r.value

\* The try/catch around Util::combined_char_based_value in
\* extract_header_data: an out_of_range is swallowed and the field set to 0.
extract_licencee_new(byte_1, byte_2) ==
    LET r == combined_char_based_value(byte_1, byte_2)
    IN  IF r.threw THEN 0 ELSE r.value

NoHeader ==
    [title |-> << >>, gameboy_type |-> 0, licencee_new |-> 0,
     sgb_compatability |-> 0, cartridge_type |-> 0, rom_size |-> 0,
     ram_size |-> 0, japanese_code |-> 0, licencee_old |-> 0,
     mask_rom_version |-> 0, complement_check |-> 0, checksum |-> 0]

\* GBCBinary::extract_header_data.  oob is the value a read past the end of
\* the vector yields (the std::memcpy of the 2-byte checksum field reads
\* index 0x14F, which a vector of size 0x14F does not hold).
extract_header_data(buf, oob, little_endian) ==
    IF Size(buf) >= header_end_addr
    THEN LET at(i) == IF i \in DOMAIN buf THEN buf[i] ELSE oob
             title_len == header_title_end_addr - header_title_start_addr
             raw == memcpy16(at(header_flag_addr.checksum),
                             at(header_flag_addr.checksum + 1), little_endian)
         IN  [threw |-> FALSE, msg |-> "",
              header |->
                [title |-> [k \in 1..title_len |-> buf[header_title_start_addr + k - 1]],
                 gameboy_type |-> buf[header_flag_addr.gameboy_type],
                 licencee_new |-> extract_licencee_new(
                                     buf[header_flag_addr.licencee_new_byte_1],
                                     buf[header_flag_addr.licencee_new_byte_2]),
                 sgb_compatability |-> buf[header_flag_addr.sgb_compatability],
                 cartridge_type |-> buf[header_flag_addr.cartridge_type],
                 rom_size |-> buf[header_flag_addr.rom_size],
                 ram_size |-> buf[header_flag_addr.ram_size],
                 japanese_code |-> buf[header_flag_addr.japanese_code],
                 licencee_old |-> buf[header_flag_addr.licencee_old],
                 mask_rom_version |-> buf[header_flag_addr.mask_rom_version],
                 complement_check |-> buf[header_flag_addr.complement_check],
                 checksum |-> nthos16_t(raw, little_endian)],
              reads |-> (header_title_start_addr..(header_title_end_addr - 1))
                          \cup (header_flag_addr.gameboy_type..(header_flag_addr.checksum + 1))]
    ELSE [threw |-> TRUE, msg |-> HeaderMsg, header |-> NoHeader, reads |-> {}]

\* The constructor with the two flags stored the wrong way round.
GBCBinary_flags_swapped(header, valid_logo, valid_header, bytes) ==
    [memory_ |-> bytes, editable_ |-> FALSE,
     binary_header_data_ |-> header,
     header_is_valid_ |-> valid_logo,
     has_valid_nintendo_logo_ |-> valid_header]

\* GBCBinary::GBCBinary(header, valid_logo, valid_header, byte_buffer)
GBCBinary(header, valid_logo, valid_header, bytes) ==
    LET base == AddressableMemory(bytes, FALSE)
    IN  [memory_ |-> base.memory_, editable_ |-> base.editable_,
         binary_header_data_ |-> header,
         header_is_valid_ |-> valid_header,
         has_valid_nintendo_logo_ |-> valid_logo]

\* GBCBinary::parse_bytes.  The three arguments are evaluated in an order the
\* compiler picks; first names the one evaluated first, which decides whose
\* exception leaves the call when several would throw.
parse_bytes(buf, oob, little_endian, first) ==
    LET h == extract_header_data(buf, oob, little_endian)
        l == valid_nintendo_logo(buf)
        c == valid_header_checksum(buf)
    IN  IF h.threw \/ l.threw \/ c.threw
        THEN [threw |-> TRUE,
              msg |-> IF first = "logo" /\ l.threw THEN l.msg ELSE HeaderMsg,
              image |-> {},
              reads |-> IF first = "logo" THEN l.reads ELSE {}]
        ELSE [threw |-> FALSE, msg |-> "",
              image |-> {GBCBinary(h.header, l.value, c.value, buf)},
              reads |-> h.reads \cup l.reads \cup c.reads]


(***************************************************************************)
(* The byte buffers the GBCBinary functions are tried on: a well-formed    *)
(* image (reference logo, a "TESTGAME" header with a matching complement   *)
(* check), cut to a length around the two size thresholds, with a few      *)
(* bytes overwritten.                                                      *)
(***************************************************************************)
\* Header bytes 0x134..0x14F of the well-formed image.
BaseHeader ==
    << 84, 69, 83, 84, 71, 65, 77, 69, 0, 0, 0, 0, 0, 0,
       77, 128, 48, 49, 3, 27, 5, 3, 1, 51, 2, 3, 18, 52 >>

BaseByte(i) ==
    IF i \in logo_start_addr..logo_end_addr
    THEN nintendo_logo_bytes[i - logo_start_addr + 1]
    ELSE IF i \in header_title_start_addr..header_end_addr
    THEN BaseHeader[i - header_title_start_addr + 1]
    ELSE 0

BufferLengths ==
    {0, logo_end_addr - 1, logo_end_addr, logo_end_addr + 1, header_end_addr - 1}
       \cup (header_end_addr..(header_end_addr + MaxExtra))

PokeOffsets ==
    {logo_start_addr - 1, logo_start_addr, 284, logo_end_addr - 1, logo_end_addr}
       \cup (header_title_start_addr..(header_end_addr + 1))
PokeValues == {0, 47, 48, 57, 58, 255}
LicenceeBytes == {0, 47, 48, 53, 57, 58, 255}

Overrides ==
    {[i \in {} |-> 0]}
       \cup UNION {[{p} -> PokeValues] : p \in PokeOffsets}
       \cup [{header_flag_addr.licencee_new_byte_1,
              header_flag_addr.licencee_new_byte_2} -> LicenceeBytes]

RECURSIVE SumBytes(_, _, _)
SumBytes(f, lo, hi) == IF lo > hi THEN 0 ELSE f[lo] + SumBytes(f, lo + 1, hi)

\* The complement check of the header bytes of f: minus (their sum plus
\* their count), modulo 256.
HeaderComplement(f) ==
    LET n == header_check_end_addr - header_check_start_addr + 1
    IN  (256 * (n + 1)
           - SumBytes(f, header_check_start_addr, header_check_end_addr) - n) % 256

\* The image with the bytes of ov written over it, its complement check
\* recomputed when fix, cut to len bytes.
MakeBuffer(len, ov, fix) ==
    LET full == [i \in 0..(header_end_addr + MaxExtra) |->
                    IF i \in DOMAIN ov THEN ov[i] ELSE BaseByte(i)]
        fixed == IF fix
                 THEN [full EXCEPT ![header_checksum_addr] = HeaderComplement(full)]
                 ELSE full
    IN  [i \in 0..(len - 1) |-> fixed[i]]

Buffers ==
    {MakeBuffer(len, ov, fix) : len \in BufferLengths, ov \in Overrides, fix \in BOOLEAN}

\* Values a read past the end of the vector may yield.
OobBytes == {0, 52, 255}
ArgumentOrders == {"header", "logo", "checksum"}

NoBuffer == [i \in {} |-> 0]
NoCall == [op |-> "none"]

RegisterInit ==
    /\ reg = Register
    /\ reg_call = NoRegCall
    /\ reg_ops = 0
    /\ byte_buffer = NoBuffer
    /\ call = NoCall

RegisterNext ==
    \/ \E byte_index \in ByteIndexes, bit_index \in BitIndexes :
          Call_get_bit(byte_index, bit_index)
    \/ \E byte_index \in ByteIndexes, bit_index \in BitIndexes, bit_value \in BOOLEAN :
          Call_set_bit(byte_index, bit_index, bit_value)
    \/ \E index \in {0, 1, 2}, value \in WriteValues :
          Call_write(index, value)

RegisterSpec == RegisterInit /\ [][RegisterNext]_vars

(***************************************************************************)
(* Calls on a byte buffer.                                                 *)
(***************************************************************************)
Call_valid_nintendo_logo ==
    LET r == valid_nintendo_logo(byte_buffer) IN
    /\ call.op = "none"
    /\ call' = [op |-> "valid_nintendo_logo", threw |-> r.threw, msg |-> r.msg,
                value |-> r.value, reads |-> r.reads]
    /\ UNCHANGED <<byte_buffer, reg_vars>>

Call_valid_header_checksum ==
    LET r == valid_header_checksum(byte_buffer) IN
    /\ call.op = "none"
    /\ call' = [op |-> "valid_header_checksum", threw |-> r.threw, msg |-> r.msg,
                value |-> r.value, reads |-> r.reads]
    /\ UNCHANGED <<byte_buffer, reg_vars>>

Call_extract_header_data(oob, little_endian) ==
    LET r == extract_header_data(byte_buffer, oob, little_endian) IN
    /\ call.op = "none"
    /\ call' = [op |-> "extract_header_data", threw |-> r.threw, msg |-> r.msg,
                header |-> r.header, reads |-> r.reads]
    /\ UNCHANGED <<byte_buffer, reg_vars>>

Call_parse_bytes(oob, little_endian, first) ==
    LET r == parse_bytes(byte_buffer, oob, little_endian, first) IN
    /\ call.op = "none"
    /\ call' = [op |-> "parse_bytes", threw |-> r.threw, msg |-> r.msg,
                image |-> r.image, reads |-> r.reads]
    /\ UNCHANGED <<byte_buffer, reg_vars>>

\* Util::combined_char_based_value on the two licencee bytes of the buffer,
\* the arguments extract_header_data gives it.
Call_combined_char_based_value ==
    /\ call.op = "none"
    /\ header_flag_addr.licencee_new_byte_2 \in DOMAIN byte_buffer
    /\ LET high == byte_buffer[header_flag_addr.licencee_new_byte_1]
           low == byte_buffer[header_flag_addr.licencee_new_byte_2]
           r == combined_char_based_value(high, low)
       IN  call' = [op |-> "combined_char_based_value", high |-> high, low |-> low,
                    threw |-> r.threw, value |-> r.value]
    /\ UNCHANGED <<byte_buffer, reg_vars>>

Init ==
    /\ reg = Register
    /\ reg_call = NoRegCall
    /\ reg_ops = 0
    /\ byte_buffer \in Buffers
    /\ call = NoCall

Next ==
    \/ Call_valid_nintendo_logo
    \/ Call_valid_header_checksum
    \/ \E oob \in OobBytes, little_endian \in BOOLEAN :
          Call_extract_header_data(oob, little_endian)
    \/ \E oob \in OobBytes, little_endian \in BOOLEAN, first \in ArgumentOrders :
          Call_parse_bytes(oob, little_endian, first)
    \/ Call_combined_char_based_value

Spec == Init /\ [][Next]_vars

(***************************************************************************)
(* Properties of the GBCBinary functions, checked under Spec.              *)
(***************************************************************************)
IsDigit(b) == b \in 48..57

\* C1: on a buffer of length >= 0x133 valid_nintendo_logo returns true iff
\* all 48 bytes at 0x104..0x133 equal the 48 reference logo bytes.
C1_LogoIffAll48 ==
    (call.op = "valid_nintendo_logo" /\ Size(byte_buffer) >= 307) =>
        /\ ~call.threw
        /\ call.value =
             (\A k \in 0..47 :
                 /\ (260 + k) \in DOMAIN byte_buffer
                 /\ byte_buffer[260 + k] = nintendo_logo_bytes[k + 1])

\* C2: on a buffer of length >= 0x14F valid_header_checksum returns true iff
\* minus (the sum of bytes 0x134..0x14C plus their count) modulo 256 equals
\* byte 0x14D, and the verdict depends only on bytes 0x134..0x14D.
C2_ChecksumIsComplement ==
    (call.op = "valid_header_checksum" /\ Size(byte_buffer) >= 335) =>
        /\ ~call.threw
        /\ call.value = (HeaderComplement(byte_buffer) = byte_buffer[333])
        /\ call.reads \subseteq 308..333
        /\ call.value =
             valid_header_checksum(
                 [i \in DOMAIN byte_buffer |->
                     IF i \in 308..333 THEN byte_buffer[i] ELSE 0]).value

C2_Witness ==
    /\ call.op = "valid_header_checksum"
    /\ Size(byte_buffer) >= 335
    /\ byte_buffer[308] = 255
    /\ call.value

\* C3: parse_bytes throws out_of_range exactly when the buffer is shorter
\* than 0x14F and then yields no image; otherwise it yields one complete
\* image whose two flags are the verdicts of the logo and checksum checks.
C3_ParseAllOrNothing ==
    (call.op = "parse_bytes") =>
        /\ call.threw = (Size(byte_buffer) < 335)
        /\ call.threw => (call.image = {} /\ call.msg \in {LogoMsg, HeaderMsg})
        /\ ~call.threw =>
             \E img \in call.image :
                 /\ call.image = {img}
                 /\ DOMAIN img = {"memory_", "editable_", "binary_header_data_",
                                  "header_is_valid_", "has_valid_nintendo_logo_"}
                 /\ img.has_valid_nintendo_logo_ = valid_nintendo_logo(byte_buffer).value
                 /\ img.header_is_valid_ = valid_header_checksum(byte_buffer).value
                 /\ img.memory_ = byte_buffer
                 /\ DOMAIN img.binary_header_data_ = DOMAIN NoHeader
                 /\ Len(img.binary_header_data_.title) = 14

C3_Witness ==
    /\ call.op = "parse_bytes"
    /\ ~call.threw
    /\ \E img \in call.image :
          ~img.has_valid_nintendo_logo_ /\ img.header_is_valid_

\* C4: after a successful extract_header_data every field equals the bytes
\* of the buffer at its offset; the checksum is 256 * byte 0x14E + byte 0x14F.
C4_FieldsAtOffsets ==
    (call.op = "extract_header_data" /\ ~call.threw) =>
        /\ call.header.title = [k \in 1..14 |-> byte_buffer[308 + k - 1]]
        /\ call.header.gameboy_type = byte_buffer[323]
        /\ call.header.sgb_compatability = byte_buffer[326]
        /\ call.header.cartridge_type = byte_buffer[327]
        /\ call.header.rom_size = byte_buffer[328]
        /\ call.header.ram_size = byte_buffer[329]
        /\ call.header.japanese_code = byte_buffer[330]
        /\ call.header.licencee_old = byte_buffer[331]
        /\ call.header.mask_rom_version = byte_buffer[332]
        /\ call.header.complement_check = byte_buffer[333]
        /\ 335 \in DOMAIN byte_buffer
        /\ call.header.checksum = 256 * byte_buffer[334] + byte_buffer[335]

\* C5: combined_char_based_value yields (high - 0x30) * 10 + (low - 0x30) on
\* two ASCII digits and throws otherwise; extract_header_data stores that
\* value for bytes 0x144 and 0x145, stores 0 when either is no digit, and
\* still succeeds with the other fields read as usual.
C5_LicenceeNew ==
    /\ (call.op = "combined_char_based_value") =>
          IF IsDigit(call.high) /\ IsDigit(call.low)
          THEN ~call.threw /\ call.value = (call.high - 48) * 10 + (call.low - 48)
          ELSE call.threw
    /\ (call.op = "extract_header_data") =>
          /\ call.threw = (Size(byte_buffer) < 335)
          /\ ~call.threw =>
               /\ call.header.licencee_new =
                    (IF IsDigit(byte_buffer[324]) /\ IsDigit(byte_buffer[325])
                     THEN (byte_buffer[324] - 48) * 10 + (byte_buffer[325] - 48)
                     ELSE 0)
               /\ call.header.title = [k \in 1..14 |-> byte_buffer[308 + k - 1]]
               /\ call.header.gameboy_type = byte_buffer[323]
               /\ call.header.sgb_compatability = byte_buffer[326]
               /\ call.header.cartridge_type = byte_buffer[327]
               /\ call.header.rom_size = byte_buffer[328]
               /\ call.header.ram_size = byte_buffer[329]
               /\ call.header.japanese_code = byte_buffer[330]
               /\ call.header.licencee_old = byte_buffer[331]
               /\ call.header.mask_rom_version = byte_buffer[332]
               /\ call.header.complement_check = byte_buffer[333]
               /\ call.header.checksum \div 256 = byte_buffer[334]

C5_Witness ==
    /\ call.op = "extract_header_data"
    /\ ~call.threw
    /\ byte_buffer[324] = 58
    /\ byte_buffer[325] = 53
    /\ call.header.licencee_new = 0

\* C9: a call that does not throw reads only indices below the buffer length.
C9_ReadsInBounds ==
    (call.op \in {"valid_nintendo_logo", "valid_header_checksum",
                  "extract_header_data", "parse_bytes"} /\ ~call.threw) =>
        \A i \in call.reads : 0 <= i /\ i < Size(byte_buffer)

(***************************************************************************)
(* Properties of the Register, checked under RegisterSpec.                 *)
(***************************************************************************)
SetBitDone == reg_call.op = "set_bit" /\ reg_call.outcome = "ok"

\* C6: after set_bit(byte_index, bit_index, value) with byte_index in {0,1}
\* and bit_index in 0..7, get_bit on the same coordinates returns value, and
\* get_bit returns bit bit_index counted from the least significant one.
C6_SetThenGet ==
    /\ (reg_call.op = "set_bit" /\ reg_call.byte_index \in {0, 1}
           /\ reg_call.bit_index \in 0..7) =>
          /\ reg_call.outcome = "ok"
          /\ get_bit(reg.memory_, reg_call.byte_index, reg_call.bit_index)
               = [threw |-> FALSE, value |-> reg_call.bit_value]
    /\ (reg_call.op = "get_bit" /\ reg_call.outcome = "ok") =>
          reg_call.ret = (BitOf(reg.memory_[reg_call.byte_index], reg_call.bit_index) = 1)

C6_Witness ==
    /\ SetBitDone
    /\ reg_call.byte_index = 1 /\ reg_call.bit_index = 3 /\ ~reg_call.bit_value
    /\ reg_call.before[1] = 8 /\ reg_call.before[0] = 1
    /\ reg.memory_[1] = 0 /\ reg.memory_[0] = 1

\* C7: get_bit and set_bit throw out_of_range exactly when byte_index >= 2
\* or bit_index > 7, and a set_bit that throws leaves both bytes unchanged.
C7_IndexBounds ==
    (reg_call.op \in {"get_bit", "set_bit"}) =>
        /\ (reg_call.outcome = "out_of_range")
             = (reg_call.byte_index >= 2 \/ reg_call.bit_index > 7)
        /\ reg_call.outcome \in {"ok", "out_of_range"}
        /\ (reg_call.outcome = "out_of_range") => reg.memory_ = reg_call.before

C7_Witness ==
    /\ reg_call.op = "set_bit"
    /\ reg_call.byte_index = 1 /\ reg_call.bit_index = 8 /\ reg_call.bit_value
    /\ reg_call.outcome = "out_of_range"
    /\ reg_call.before[1] = 128
    /\ reg.memory_[1] = 128

\* C8: a Register holds exactly 2 bytes and is always editable, so a write
\* at index 0 or 1 through AddressableMemory is never refused.
C8_RegisterEditable ==
    /\ Size(reg.memory_) = 2
    /\ reg.editable_
    /\ (reg_call.op = "write" /\ reg_call.byte_index < 2) =>
          reg_call.outcome = "ok"

\* C10: a successful set_bit changes at most the addressed bit, keeps every
\* byte within 0..255 and is idempotent; get_bit never changes the Register.
C10_SetBitFrame ==
    /\ DOMAIN reg.memory_ = 0..1
    /\ \A b \in 0..1 : reg.memory_[b] \in Byte
    /\ SetBitDone =>
          /\ \A b \in 0..1, k \in 0..7 :
                (b # reg_call.byte_index \/ k # reg_call.bit_index) =>
                    BitOf(reg.memory_[b], k) = BitOf(reg_call.before[b], k)
          /\ set_bit(reg.memory_, reg_call.byte_index, reg_call.bit_index,
                     reg_call.bit_value)
               = [threw |-> FALSE, memory_ |-> reg.memory_]
    /\ (reg_call.op = "get_bit") => reg.memory_ = reg_call.before

C10_Witness ==
    /\ SetBitDone
    /\ reg_call.byte_index = 0 /\ reg_call.bit_index = 7 /\ reg_call.bit_value
    /\ reg_call.before[0] = 1 /\ reg_call.before[1] = 16
    /\ reg.memory_[0] = 129 /\ reg.memory_[1] = 16

====
